---- MODULE Spec2Model ----
(***************************************************************************)
(* Model of sov-warp-utils (src/main.rs): the fixed-length byte wrapper    *)
(* HexString<[u8; N]> with its text and serde conversions, the SHA-256     *)
(* derivation of the warp route ID and the token ID, the bech32m rendering *)
(* of the token ID, and the main() pipeline that chains them.              *)
(*                                                                         *)
(* Bytes are integers 0..255, byte strings are sequences of bytes, and a   *)
(* text is the sequence of its UTF-8 bytes (all texts here are ASCII).     *)
(* A 32-bit word is a pair <<hi, lo>> of 16-bit halves, so that no         *)
(* intermediate value leaves the range of the checker's integers.          *)
(***************************************************************************)
EXTENDS Integers, Sequences, FiniteSets

----------------------------------------------------------------------------
(* Bit operations on non-negative integers.                                *)

\* 2^n for n in 0..30.
Pow2(n) ==
    <<
        1, 2, 4, 8, 16, 32, 64, 128, 256, 512, 1024, 2048, 4096, 8192, 16384, 32768,
        65536, 131072, 262144, 524288, 1048576, 2097152, 4194304, 8388608, 16777216,
        33554432, 67108864, 134217728, 268435456, 536870912, 1073741824 >>[n + 1]

\* Exclusive or and conjunction of two 4-bit values, as tables.
XorNibble ==
    [a \in 0..15 |-> [b \in 0..15 |->
        ((a + b) % 2) + 2 * (((a \div 2) + (b \div 2)) % 2)
            + 4 * (((a \div 4) + (b \div 4)) % 2) + 8 * (((a \div 8) + (b \div 8)) % 2)]]

AndNibble ==
    [a \in 0..15 |-> [b \in 0..15 |->
        ((a % 2) * (b % 2)) + 2 * (((a \div 2) % 2) * ((b \div 2) % 2))
            + 4 * (((a \div 4) % 2) * ((b \div 4) % 2)) + 8 * ((a \div 8) * (b \div 8))]]

\* Exclusive or and conjunction of two 16-bit values, nibble by nibble.
Xor(a, b) ==
    XorNibble[a % 16][b % 16] + 16 * XorNibble[(a \div 16) % 16][(b \div 16) % 16]
        + 256 * XorNibble[(a \div 256) % 16][(b \div 256) % 16]
        + 4096 * XorNibble[(a \div 4096) % 16][(b \div 4096) % 16]

And(a, b) ==
    AndNibble[a % 16][b % 16] + 16 * AndNibble[(a \div 16) % 16][(b \div 16) % 16]
        + 256 * AndNibble[(a \div 256) % 16][(b \div 256) % 16]
        + 4096 * AndNibble[(a \div 4096) % 16][(b \div 4096) % 16]

Half == 65536

WXor(a, b) == << Xor(a[1], b[1]), Xor(a[2], b[2]) >>
WXor3(a, b, c) == << Xor(Xor(a[1], b[1]), c[1]), Xor(Xor(a[2], b[2]), c[2]) >>
WAnd(a, b) == << And(a[1], b[1]), And(a[2], b[2]) >>
WNot(a) == << (Half - 1) - a[1], (Half - 1) - a[2] >>
WAdd(a, b) ==
    << (a[1] + b[1] + ((a[2] + b[2]) \div Half)) % Half, (a[2] + b[2]) % Half >>

\* The sum modulo 2^32 of five words.
WAdd5(a, b, c, d, e) ==
    << (a[1] + b[1] + c[1] + d[1] + e[1]
            + ((a[2] + b[2] + c[2] + d[2] + e[2]) \div Half)) % Half,
       (a[2] + b[2] + c[2] + d[2] + e[2]) % Half >>

\* Rotation to the right by n < 16 bits, and by n >= 16 bits.
RotrLow(w, n) ==
    << (w[1] \div Pow2(n)) + ((w[2] % Pow2(n)) * Pow2(16 - n)),
       (w[2] \div Pow2(n)) + ((w[1] % Pow2(n)) * Pow2(16 - n)) >>

Rotr(w, n) == IF n < 16 THEN RotrLow(w, n) ELSE RotrLow(<< w[2], w[1] >>, n - 16)

\* Shift to the right by n < 16 bits.
Shr(w, n) ==
    << w[1] \div Pow2(n), (w[2] \div Pow2(n)) + ((w[1] % Pow2(n)) * Pow2(16 - n)) >>

----------------------------------------------------------------------------
(* SHA-256 (FIPS 180-4), the digest of the sha2 crate's Sha256.            *)

Sha256K == <<
    <<17034, 12184>>, <<28983, 17553>>, <<46528, 64463>>, <<59829, 56229>>,
    <<14678, 49755>>, <<23025, 4593>>, <<37439, 33444>>, <<43804, 24277>>,
    <<55303, 43672>>, <<4739, 23297>>, <<9265, 34238>>, <<21772, 32195>>,
    <<29374, 23924>>, <<32990, 45566>>, <<39900, 1703>>, <<49563, 61812>>,
    <<58523, 27073>>, <<61374, 18310>>, <<4033, 40390>>, <<9228, 41420>>,
    <<11753, 11375>>, <<19060, 33962>>, <<23728, 43484>>, <<30457, 35034>>,
    <<38974, 20818>>, <<43057, 50797>>, <<45059, 10184>>, <<48985, 32711>>,
    <<50912, 3059>>, <<54695, 37191>>, <<1738, 25425>>, <<5161, 10599>>,
    <<10167, 2693>>, <<11803, 8504>>, <<19756, 28156>>, <<21304, 3347>>,
    <<25866, 29524>>, <<30314, 2747>>, <<33218, 51502>>, <<37490, 11397>>,
    <<41663, 59553>>, <<43034, 26187>>, <<49739, 35696>>, <<51052, 20899>>,
    <<53650, 59417>>, <<54937, 1572>>, <<62478, 13701>>, <<4202, 41072>>,
    <<6564, 49430>>, <<7735, 27656>>, <<10056, 30540>>, <<13488, 48309>>,
    <<14620, 3251>>, <<20184, 43594>>, <<23452, 51791>>, <<26670, 28659>>,
    <<29839, 33518>>, <<30885, 25455>>, <<33992, 30740>>, <<36039, 520>>,
    <<37054, 65530>>, <<42064, 27883>>, <<48889, 41975>>, <<50801, 30962>> >>

Sha256H0 == <<
    <<27145, 58983>>, <<47975, 44677>>, <<15470, 62322>>, <<42319, 62778>>,
    <<20750, 21119>>, <<39685, 26764>>, <<8067, 55723>>, <<23520, 52505>> >>

BigSigma0(x) == WXor3(Rotr(x, 2), Rotr(x, 13), Rotr(x, 22))
BigSigma1(x) == WXor3(Rotr(x, 6), Rotr(x, 11), Rotr(x, 25))
SmallSigma0(x) == WXor3(Rotr(x, 7), Rotr(x, 18), Shr(x, 3))
SmallSigma1(x) == WXor3(Rotr(x, 17), Rotr(x, 19), Shr(x, 10))
Ch(x, y, z) == WXor(WAnd(x, y), WAnd(WNot(x), z))
Maj(x, y, z) == WXor3(WAnd(x, y), WAnd(x, z), WAnd(y, z))

\* The message followed by 0x80, zero bytes up to 56 mod 64, and the bit
\* length as a 64-bit big-endian integer (messages here are far below 2^24 bytes).
Sha256Pad(msg) ==
    LET len   == Len(msg)
        zeros == (119 - (len % 64)) % 64
        bits  == 8 * len
    IN  msg \o << 128 >> \o [i \in 1..zeros |-> 0]
            \o << 0, 0, 0, 0, 0, (bits \div 65536) % 256, (bits \div 256) % 256, bits % 256 >>

\* The 16 big-endian words of the k-th 64-byte block (k from 0).
BlockWord(padded, o) ==
    << padded[o + 1] * 256 + padded[o + 2], padded[o + 3] * 256 + padded[o + 4] >>

BlockWords(padded, k) ==
    << BlockWord(padded, 64 * k), BlockWord(padded, 64 * k + 4),
       BlockWord(padded, 64 * k + 8), BlockWord(padded, 64 * k + 12),
       BlockWord(padded, 64 * k + 16), BlockWord(padded, 64 * k + 20),
       BlockWord(padded, 64 * k + 24), BlockWord(padded, 64 * k + 28),
       BlockWord(padded, 64 * k + 32), BlockWord(padded, 64 * k + 36),
       BlockWord(padded, 64 * k + 40), BlockWord(padded, 64 * k + 44),
       BlockWord(padded, 64 * k + 48), BlockWord(padded, 64 * k + 52),
       BlockWord(padded, 64 * k + 56), BlockWord(padded, 64 * k + 60) >>

\* The word of the message schedule that follows the 16 words of win.
ScheduleWord(win) ==
    WAdd5(SmallSigma1(win[15]), win[10], SmallSigma0(win[2]), win[1], << 0, 0 >>)

\* One round on the working variables v = << a, b, c, d, e, f, g, h >> with the
\* schedule word wt and the round constant k.
Sha256Round(v, wt, k) ==
    LET t1 == WAdd5(v[8], BigSigma1(v[5]), Ch(v[5], v[6], v[7]), k, wt)
        t2 == WAdd(BigSigma0(v[1]), Maj(v[1], v[2], v[3]))
    IN  << WAdd(t1, t2), v[1], v[2], v[3], WAdd(v[4], t1), v[5], v[6], v[7] >>

\* Round t (from 1) on st = << working variables, the last 16 schedule words >>:
\* the first 16 rounds read the words of the block, the later ones extend the
\* schedule by one word.
Sha256Step(st, t) ==
    IF t <= 16 THEN << Sha256Round(st[1], st[2][t], Sha256K[t]), st[2] >>
    ELSE << Sha256Round(st[1], ScheduleWord(st[2]), Sha256K[t]),
            Append(Tail(st[2]), ScheduleWord(st[2])) >>

\* The states round by round, extended to n entries: trace[1] is the state the
\* block starts from and trace[t + 1] the state after round t. The range is
\* halved at each call, which keeps the evaluation shallow.
RECURSIVE RoundsTo(_, _)
RoundsTo(trace, n) ==
    IF Len(trace) + 1 >= n THEN Append(trace, Sha256Step(trace[Len(trace)], Len(trace)))
    ELSE RoundsTo(RoundsTo(trace, (Len(trace) + 1 + n) \div 2), n)

\* The chaining value h with the working variables v added word by word.
AddWords(h, v) ==
    << WAdd(h[1], v[1]), WAdd(h[2], v[2]), WAdd(h[3], v[3]), WAdd(h[4], v[4]),
       WAdd(h[5], v[5]), WAdd(h[6], v[6]), WAdd(h[7], v[7]), WAdd(h[8], v[8]) >>

\* The chaining value h after the block of the 16 given words.
Compress(h, words) == AddWords(h, RoundsTo(<< << h, words >> >>, 65)[65][1])

\* The chaining values block by block: chain[1] is the initial hash value and
\* chain[k + 1] the value after the k-th block of the padded message.
RECURSIVE Sha256Blocks(_, _)
Sha256Blocks(chain, padded) ==
    IF 64 * Len(chain) > Len(padded) THEN chain[Len(chain)]
    ELSE Sha256Blocks(Append(chain, Compress(chain[Len(chain)],
                                             BlockWords(padded, Len(chain) - 1))),
                      padded)

\* Byte j (0 to 3, the most significant first) of a word.
WordByte(w, j) ==
    IF j = 0 THEN w[1] \div 256
    ELSE IF j = 1 THEN w[1] % 256
    ELSE IF j = 2 THEN w[2] \div 256
    ELSE w[2] % 256

\* The 32 digest bytes: the eight state words, big-endian.
DigestBytes(h) == [i \in 1..32 |-> WordByte(h[((i - 1) \div 4) + 1], (i - 1) % 4)]

Sha256(msg) == DigestBytes(Sha256Blocks(<< Sha256H0 >>, Sha256Pad(msg)))

----------------------------------------------------------------------------
(* Results. A Rust Result<T, E> is a record: ok tells Ok from Err, val is  *)
(* the value of an Ok and err the message of an Err.                       *)

Ok(v) == [ok |-> TRUE, val |-> v, err |-> ""]
Err(e) == [ok |-> FALSE, val |-> << >>, err |-> e]

----------------------------------------------------------------------------
(* The hex crate: hex::encode and hex::decode.                             *)

\* "0123456789abcdef"
HexCharsLower == << 48, 49, 50, 51, 52, 53, 54, 55, 56, 57, 97, 98, 99, 100, 101, 102 >>

\* Two lowercase hex characters per byte, the high nibble first.
hex_encode(bytes) ==
    [i \in 1..(2 * Len(bytes)) |->
        IF i % 2 = 1 THEN HexCharsLower[(bytes[(i + 1) \div 2] \div 16) + 1]
        ELSE HexCharsLower[(bytes[i \div 2] % 16) + 1]]

\* The value of one hex character, -1 for a character that is no hex digit.
hex_val(c) ==
    IF c \in 65..70 THEN c - 65 + 10
    ELSE IF c \in 97..102 THEN c - 97 + 10
    ELSE IF c \in 48..57 THEN c - 48
    ELSE -1

hex_decode(s) ==
    IF Len(s) % 2 # 0 THEN Err("OddLength")
    ELSE IF \E i \in 1..Len(s) : hex_val(s[i]) = -1 THEN Err("InvalidHexCharacter")
    ELSE Ok([i \in 1..(Len(s) \div 2) |-> hex_val(s[2 * i - 1]) * 16 + hex_val(s[2 * i])])

----------------------------------------------------------------------------
(* HexString<[u8; N]>: parsing, display and serde.                         *)

\* "0x"
Prefix0x == << 48, 120 >>

\* str::strip_prefix(p).unwrap_or(s)
strip_prefix_or(s, p) ==
    IF Len(s) >= Len(p) /\ SubSeq(s, 1, Len(p)) = p THEN SubSeq(s, Len(p) + 1, Len(s))
    ELSE s

\* A faulty parse_vec_u8 that forgets to strip the "0x".
parse_vec_u8_keeping_prefix(s) == hex_decode(s)

parse_vec_u8(s) == hex_decode(strip_prefix_or(s, Prefix0x))

\* A faulty conversion that takes a vector of any length.
try_into_unchecked(bytes, N) == Ok(bytes)

\* Vec<u8> to [u8; N]
try_into(bytes, N) ==
    IF Len(bytes) = N THEN Ok(bytes) ELSE Err("Invalid hex string length")

from_str(s, N) ==
    IF parse_vec_u8(s).ok THEN try_into(parse_vec_u8(s).val, N) ELSE parse_vec_u8(s)

\* A faulty Display that leaves the "0x" out.
to_string_unprefixed(value) == hex_encode(value)

\* Display (and Debug): "0x" and the lowercase hex of the bytes.
to_string(value) == Prefix0x \o hex_encode(value)

\* A faulty serialize that writes the text form in both modes.
serialize_always_text(value, human_readable) ==
    [kind |-> "str", str |-> Prefix0x \o hex_encode(value), len |-> 0, seq |-> << >>]

\* What serialize hands to the serializer: a string in human-readable mode, and
\* otherwise a sequence announced with its length whose elements are the bytes.
serialize(value, human_readable) ==
    IF human_readable
    THEN [kind |-> "str", str |-> to_string(value), len |-> 0, seq |-> << >>]
    ELSE [kind |-> "seq", str |-> << >>, len |-> Len(value),
          seq |-> [i \in 1..Len(value) |-> value[i]]]

\* deserialize from what the deserializer holds: a String in human-readable
\* mode, a Vec<u8> otherwise; anything else is the deserializer's type error.
deserialize(input, human_readable, N) ==
    IF human_readable
    THEN IF input.kind # "str" THEN Err("invalid type")
         ELSE IF parse_vec_u8(input.str).ok THEN try_into(parse_vec_u8(input.str).val, N)
         ELSE parse_vec_u8(input.str)
    ELSE IF input.kind # "seq" THEN Err("invalid type")
         ELSE try_into(input.seq, N)

----------------------------------------------------------------------------
(* The sha2 hasher: the data fed so far, and its digest.                   *)

Sha256_default == << >>
update(hasher, data) == hasher \o data
finalize(hasher) == Sha256(hasher)

----------------------------------------------------------------------------
(* The derivation of the identifiers.                                      *)

\* [0u8; 32] with the address copied to [12..]
extended_token_address(token_address) ==
    [i \in 1..32 |-> IF i <= 12 THEN 0 ELSE token_address[i - 12]]

\* A faulty get_warp_route_id with the two addresses in each other's place.
warp_route_hasher_deployer_first(token_address, deployer) ==
    update(update(update(Sha256_default, extended_token_address(deployer)), << 0 >>),
           token_address)

\* The hasher of get_warp_route_id before finalize.
warp_route_hasher(token_address, deployer) ==
    update(update(update(Sha256_default, extended_token_address(token_address)), << 0 >>),
           deployer)

get_warp_route_id(token_address, deployer) ==
    finalize(warp_route_hasher(token_address, deployer))

\* "Synthetic token for "
SyntheticTokenFor ==
    << 83, 121, 110, 116, 104, 101, 116, 105, 99, 32, 116, 111, 107, 101, 110, 32,
       102, 111, 114, 32 >>

\* A faulty token name with the bare hex digits of the warp route ID.
token_name_unprefixed(warp_route_id) == SyntheticTokenFor \o hex_encode(warp_route_id)

\* format!("Synthetic token for {warp_route_id}")
token_name(warp_route_id) == SyntheticTokenFor \o to_string(warp_route_id)

\* A faulty get_token_id that never feeds the decimals byte.
token_hasher_without_decimals(warp_route_id, decimals) ==
    update(update(Sha256_default, warp_route_id),
           SyntheticTokenFor \o Prefix0x \o hex_encode(warp_route_id))

\* The hasher of get_token_id before finalize.
token_hasher(warp_route_id, decimals) ==
    update(update(update(Sha256_default, warp_route_id), token_name(warp_route_id)),
           << decimals >>)

get_token_id(warp_route_id, decimals) == finalize(token_hasher(warp_route_id, decimals))

----------------------------------------------------------------------------
(* The bech32 crate: Hrp::parse and encode::<Bech32m>.                     *)

\* "qpzry9x8gf2tvdw0s3jn54khce6mua7l"
Bech32Charset ==
    << 113, 112, 122, 114, 121, 57, 120, 56, 103, 102, 50, 116, 118, 100, 119, 48,
       115, 51, 106, 110, 53, 52, 107, 104, 99, 101, 54, 109, 117, 97, 55, 108 >>

Bech32Gen == << 996825010, 642813549, 513874426, 1027748829, 705979059 >>

\* Exclusive or of two values below 2^30.
Xor30(a, b) == Xor(a % Half, b % Half) + Half * Xor(a \div Half, b \div Half)

\* The generator selected by bit i of b, or 0.
GenIf(b, i) == IF (b \div Pow2(i)) % 2 = 1 THEN Bech32Gen[i + 1] ELSE 0

PolymodStep(chk, v) ==
    Xor30(Xor30(Xor30((chk % 33554432) * 32, v),
                Xor30(GenIf(chk \div 33554432, 0), GenIf(chk \div 33554432, 1))),
          Xor30(Xor30(GenIf(chk \div 33554432, 2), GenIf(chk \div 33554432, 3)),
                GenIf(chk \div 33554432, 4)))

\* The checksum register value by value, extended to n entries: trace[1] is 1
\* and trace[k + 1] the register after the k-th value.
RECURSIVE PolymodTo(_, _, _)
PolymodTo(trace, values, n) ==
    IF Len(trace) + 1 >= n
    THEN Append(trace, PolymodStep(trace[Len(trace)], values[Len(trace)]))
    ELSE PolymodTo(PolymodTo(trace, values, (Len(trace) + 1 + n) \div 2), values, n)

Polymod(values) ==
    IF Len(values) = 0 THEN 1
    ELSE PolymodTo(<< 1 >>, values, Len(values) + 1)[Len(values) + 1]

to_lower(c) == IF c \in 65..90 THEN c + 32 ELSE c

\* Hrp::parse: 1 to 83 characters, each in 33..126, not of mixed case.
Hrp_parse(s) ==
    IF Len(s) = 0 THEN Err("Empty")
    ELSE IF Len(s) > 83 THEN Err("TooLong")
    ELSE IF \E i \in 1..Len(s) : s[i] < 33 \/ s[i] > 126 THEN Err("InvalidAsciiByte")
    ELSE IF (\E i \in 1..Len(s) : s[i] \in 65..90) /\ (\E i \in 1..Len(s) : s[i] \in 97..122)
    THEN Err("MixedCase")
    ELSE Ok(s)

\* The high bits of the lowercased prefix, a zero, and its low bits.
HrpExpand(hrp) ==
    [i \in 1..(2 * Len(hrp) + 1) |->
        IF i <= Len(hrp) THEN to_lower(hrp[i]) \div 32
        ELSE IF i = Len(hrp) + 1 THEN 0
        ELSE to_lower(hrp[i - Len(hrp) - 1]) % 32]

\* Bit k (from 0, most significant first) of a byte string, 0 past its end.
BitAt(bytes, k) ==
    IF k >= 8 * Len(bytes) THEN 0
    ELSE (bytes[(k \div 8) + 1] \div Pow2(7 - (k % 8))) % 2

\* The bytes regrouped in 5-bit values, the last one padded with zero bits.
BytesToFes(bytes) ==
    [j \in 1..((8 * Len(bytes) + 4) \div 5) |->
        16 * BitAt(bytes, 5 * (j - 1)) + 8 * BitAt(bytes, 5 * (j - 1) + 1)
            + 4 * BitAt(bytes, 5 * (j - 1) + 2) + 2 * BitAt(bytes, 5 * (j - 1) + 3)
            + BitAt(bytes, 5 * (j - 1) + 4)]

\* The bech32m constant 0x2bc830a3.
Bech32mConst == 734539939

\* The checksum of the older Bech32 variant, whose constant is 1.
Bech32Checksum(hrp, fes) ==
    LET pm == Xor30(Polymod(HrpExpand(hrp) \o fes \o << 0, 0, 0, 0, 0, 0 >>), 1)
    IN  [i \in 1..6 |-> (pm \div Pow2(5 * (6 - i))) % 32]

\* The six 5-bit values of the Bech32m checksum of the prefix and the data.
Bech32mChecksum(hrp, fes) ==
    LET pm == Xor30(Polymod(HrpExpand(hrp) \o fes \o << 0, 0, 0, 0, 0, 0 >>), Bech32mConst)
    IN  [i \in 1..6 |-> (pm \div Pow2(5 * (6 - i))) % 32]

\* The data part: the 5-bit values of the data, then those of the checksum.
Bech32mDataPart(hrp, data) == BytesToFes(data) \o Bech32mChecksum(hrp, BytesToFes(data))

\* encode::<Bech32m>: prefix, "1", data and checksum in the bech32 alphabet; an
\* encoding longer than 1023 characters is refused.
bech32_encode(hrp, data) ==
    IF Len(hrp) + 1 + ((8 * Len(data) + 4) \div 5) + 6 > 1023 THEN Err("TooLong")
    ELSE LET part == Bech32mDataPart(hrp, data)
         IN  Ok([i \in 1..Len(hrp) |-> to_lower(hrp[i])] \o << 49 >>
                \o [i \in 1..Len(part) |-> Bech32Charset[part[i] + 1]])

\* "token_"
TokenPrefix == << 116, 111, 107, 101, 110, 95 >>

\* Both expect() calls panic on an Err: the result is an Err then.
format_token_id(id) ==
    IF ~Hrp_parse(TokenPrefix).ok THEN Err("token_ is a valid prefix")
    ELSE LET encoded == bech32_encode(Hrp_parse(TokenPrefix).val, id)
         IN  IF encoded.ok THEN encoded ELSE Err("Failed to format bech32")

----------------------------------------------------------------------------
(* Options. None, or Some(v).                                              *)

None == [some |-> FALSE, val |-> << >>]
Some(v) == [some |-> TRUE, val |-> v]

----------------------------------------------------------------------------
(* Bounds and input sets.                                                  *)

\* The sizes N of HexString<[u8; N]> whose texts are enumerated in full.
MaxN == 2
\* The longest text enumerated in full.
MaxTextLen == 6
\* The longest raw byte sequence enumerated in full.
MaxSeqLen == 3

\* '0', 'x', 'a', 'A', 'g': a digit, the prefix letter, a hex letter in both
\* cases, and a letter that is no hex digit.
Alphabet == { 48, 120, 97, 65, 103 }

ShortTexts == UNION { [1..k -> Alphabet] : k \in 0..MaxTextLen }
ShortSeqs == UNION { [1..k -> { 0, 255 }] : k \in 0..MaxSeqLen }

\* The sizes of Address and of HexHash.
AddressLen == 20
HashLen == 32

\* Digit patterns of the long texts: "a1", "Af0", "0" and "0g" (no hex text).
Patterns == { << 97, 49 >>, << 65, 102, 48 >>, << 48 >>, << 48, 103 >> }

\* prefix, then k characters that repeat the pattern.
LongText(prefix, k, pat) == prefix \o [i \in 1..k |-> pat[((i - 1) % Len(pat)) + 1]]

\* Texts around the 40 hex digits of an Address, with and without "0x".
ArgTexts ==
    { LongText(p, k, pat) : p \in { << >>, Prefix0x }, k \in { 39, 40, 42 }, pat \in Patterns }

\* Texts around the 64 hex digits of a HexHash.
HashTexts ==
    { LongText(p, k, pat) : p \in { << >>, Prefix0x }, k \in { 62, 64, 65 }, pat \in Patterns }

\* Raw byte sequences around 20 and 32 bytes.
LongSeqs == { [i \in 1..k |-> b] : k \in { 19, 20, 21, 31, 32, 33 }, b \in { 0, 171 } }

StrInput(text) == [kind |-> "str", str |-> text, len |-> 0, seq |-> << >>]
SeqInput(bytes) == [kind |-> "seq", str |-> << >>, len |-> Len(bytes), seq |-> bytes]

\* The 32-byte identifiers the derivation functions are applied to.
Ids32 ==
    { [i \in 1..32 |-> 0], [i \in 1..32 |-> 255], [i \in 1..32 |-> i],
      [i \in 1..32 |-> 255 - (7 * i)], [i \in 1..32 |-> (i * i) % 256],
      [i \in 1..32 |-> IF i = 32 THEN 1 ELSE 0], [i \in 1..32 |-> IF i = 1 THEN 128 ELSE 0],
      [i \in 1..32 |-> 171] }

\* The decimals get_token_id is applied to.
Decimals == { 0, 18, 255 }

\* The decimals main passes to get_token_id.
MainDecimals == 18

----------------------------------------------------------------------------
(* State.                                                                  *)

VARIABLES
    pc,             \* where main is; "lib" and "fn" when the functions are called directly
    args,           \* the texts of --deployer and --token-address
    deployer,       \* Option: the parsed Args.deployer
    token_address,  \* Option: the parsed Args.token_address
    warp_route_id,  \* Option: main's warp_route_id
    token_id,       \* Option: main's token_id
    stdout,         \* the lines printed
    calls,          \* the calls of the derivation functions, with what each hashed
    n,              \* the N of the HexString<[u8; N]> under test
    input,          \* what is parsed or deserialized
    value,          \* Option: the Result of from_str or deserialize
    rendered,       \* Option: to_string of the value
    reparsed,       \* Option: from_str of the rendered text
    wire,           \* Option: the mode and the output of serialize
    back,           \* Option: the mode and the Result of deserialize on the wire
    id,             \* the 32-byte identifier the functions are applied to
    token_ids,      \* per decimals, the digests get_token_id has returned
    formatted       \* Option: the Result of format_token_id

mainVars == << args, deployer, token_address, warp_route_id, token_id, stdout >>
hexVars == << n, input, value, rendered, reparsed, wire, back >>
fnVars == << id, token_ids, formatted >>
vars == << pc, mainVars, calls, hexVars, fnVars >>

MainIdle ==
    /\ args = [deployer |-> << >>, token_address |-> << >>]
    /\ deployer = None /\ token_address = None
    /\ warp_route_id = None /\ token_id = None
    /\ stdout = << >>

HexIdle ==
    /\ n = 0 /\ input = StrInput(<< >>)
    /\ value = None /\ rendered = None /\ reparsed = None
    /\ wire = None /\ back = None

FnIdle ==
    /\ id = << >>
    /\ token_ids = [d \in Decimals |-> { }]
    /\ formatted = None

----------------------------------------------------------------------------
(* main                                                                    *)

InitMain ==
    /\ pc = "start"
    /\ args \in [deployer : ArgTexts, token_address : ArgTexts]
    /\ deployer = None /\ token_address = None
    /\ warp_route_id = None /\ token_id = None
    /\ stdout = << >>
    /\ calls = << >>
    /\ HexIdle /\ FnIdle

\* A faulty start of main that replaces an unparsable address by twenty zero
\* bytes and goes on.
ParseArgs_defaulting ==
    /\ pc = "start"
    /\ deployer' = Some(IF from_str(args.deployer, AddressLen).ok
                        THEN from_str(args.deployer, AddressLen).val
                        ELSE [i \in 1..AddressLen |-> 0])
    /\ token_address' = Some(IF from_str(args.token_address, AddressLen).ok
                             THEN from_str(args.token_address, AddressLen).val
                             ELSE [i \in 1..AddressLen |-> 0])
    /\ pc' = "parsed"
    /\ UNCHANGED << args, warp_route_id, token_id, stdout, calls, hexVars, fnVars >>

\* Args::parse(): clap parses each value with FromStr and, when one fails,
\* reports the error and exits before main goes on.
ParseArgs ==
    /\ pc = "start"
    /\ IF from_str(args.deployer, AddressLen).ok /\ from_str(args.token_address, AddressLen).ok
       THEN /\ deployer' = Some(from_str(args.deployer, AddressLen).val)
            /\ token_address' = Some(from_str(args.token_address, AddressLen).val)
            /\ pc' = "parsed"
       ELSE /\ pc' = "exit"
            /\ UNCHANGED << deployer, token_address >>
    /\ UNCHANGED << args, warp_route_id, token_id, stdout, calls, hexVars, fnVars >>

\* A faulty call with the two arguments in each other's place.
GetWarpRouteId_swapped ==
    /\ pc = "parsed"
    /\ warp_route_id' = Some(get_warp_route_id(deployer.val, token_address.val))
    /\ calls' = Append(calls, [fn |-> "get_warp_route_id",
                               hashed |-> warp_route_hasher(deployer.val, token_address.val)])
    /\ pc' = "route"
    /\ UNCHANGED << args, deployer, token_address, token_id, stdout, hexVars, fnVars >>

\* let warp_route_id = get_warp_route_id(token_address, deployer);
GetWarpRouteId ==
    /\ pc = "parsed"
    /\ warp_route_id' = Some(get_warp_route_id(token_address.val, deployer.val))
    /\ calls' = Append(calls, [fn |-> "get_warp_route_id",
                               hashed |-> warp_route_hasher(token_address.val, deployer.val)])
    /\ pc' = "route"
    /\ UNCHANGED << args, deployer, token_address, token_id, stdout, hexVars, fnVars >>

\* let token_id = get_token_id(warp_route_id, 18);
GetTokenId ==
    /\ pc = "route"
    /\ token_id' = Some(get_token_id(warp_route_id.val, MainDecimals))
    /\ calls' = Append(calls, [fn |-> "get_token_id",
                               hashed |-> token_hasher(warp_route_id.val, MainDecimals)])
    /\ pc' = "token"
    /\ UNCHANGED << args, deployer, token_address, warp_route_id, stdout, hexVars, fnVars >>

\* "Warp Route ID: "
WarpRouteLabel == << 87, 97, 114, 112, 32, 82, 111, 117, 116, 101, 32, 73, 68, 58, 32 >>
\* "Token ID: "
TokenLabel == << 84, 111, 107, 101, 110, 32, 73, 68, 58, 32 >>

\* println!("Warp Route ID: {warp_route_id}");
PrintWarpRouteId ==
    /\ pc = "token"
    /\ stdout' = Append(stdout, WarpRouteLabel \o to_string(warp_route_id.val))
    /\ pc' = "printed"
    /\ UNCHANGED << args, deployer, token_address, warp_route_id, token_id, calls,
                    hexVars, fnVars >>

\* println!("Token ID: {}", format_token_id(token_id)); a panic prints nothing.
PrintTokenId ==
    /\ pc = "printed"
    /\ calls' = Append(calls, [fn |-> "format_token_id", hashed |-> << >>])
    /\ IF format_token_id(token_id.val).ok
       THEN /\ stdout' = Append(stdout, TokenLabel \o format_token_id(token_id.val).val)
            /\ pc' = "done"
       ELSE /\ pc' = "panic"
            /\ UNCHANGED stdout
    /\ UNCHANGED << args, deployer, token_address, warp_route_id, token_id, hexVars, fnVars >>

NextMain == ParseArgs \/ GetWarpRouteId \/ GetTokenId \/ PrintWarpRouteId \/ PrintTokenId

Spec == InitMain /\ [][NextMain]_vars

----------------------------------------------------------------------------
(* HexString<[u8; N]> used directly: parsed, deserialized, displayed and   *)
(* serialized by a caller of the library.                                  *)

InitHex ==
    /\ pc = "lib"
    /\ \/ /\ n \in 1..MaxN
          /\ input \in { StrInput(t) : t \in ShortTexts } \cup { SeqInput(b) : b \in ShortSeqs }
       \/ /\ n \in { AddressLen, HashLen }
          /\ input \in { StrInput(t) : t \in ArgTexts \cup HashTexts }
                           \cup { SeqInput(b) : b \in LongSeqs }
    /\ value = None /\ rendered = None /\ reparsed = None
    /\ wire = None /\ back = None
    /\ calls = << >>
    /\ MainIdle /\ FnIdle

\* s.parse::<HexString<[u8; N]>>()
FromStr ==
    /\ pc = "lib" /\ value = None /\ input.kind = "str"
    /\ value' = Some([via |-> "from_str", res |-> from_str(input.str, n)])
    /\ UNCHANGED << pc, mainVars, calls, n, input, rendered, reparsed, wire, back, fnVars >>

\* HexString::<[u8; N]>::deserialize(deserializer)
Deserialize(human_readable) ==
    /\ pc = "lib" /\ value = None
    /\ value' = Some([via |-> IF human_readable THEN "deserialize_text" ELSE "deserialize_binary",
                      res |-> deserialize(input, human_readable, n)])
    /\ UNCHANGED << pc, mainVars, calls, n, input, rendered, reparsed, wire, back, fnVars >>

\* value.to_string()
Display ==
    /\ pc = "lib" /\ value.some /\ value.val.res.ok /\ rendered = None
    /\ rendered' = Some(to_string(value.val.res.val))
    /\ UNCHANGED << pc, mainVars, calls, n, input, value, reparsed, wire, back, fnVars >>

\* the rendered text parsed again
ReParse ==
    /\ pc = "lib" /\ rendered.some /\ reparsed = None
    /\ reparsed' = Some(from_str(rendered.val, n))
    /\ UNCHANGED << pc, mainVars, calls, n, input, value, rendered, wire, back, fnVars >>

\* value.serialize(serializer)
Serialize(human_readable) ==
    /\ pc = "lib" /\ value.some /\ value.val.res.ok /\ wire = None
    /\ wire' = Some([human |-> human_readable,
                     out |-> serialize(value.val.res.val, human_readable)])
    /\ UNCHANGED << pc, mainVars, calls, n, input, value, rendered, reparsed, back, fnVars >>

\* what was serialized, deserialized again by a deserializer of either mode
DeserializeWire(human_readable) ==
    /\ pc = "lib" /\ wire.some /\ back = None
    /\ back' = Some([human |-> human_readable,
                     res |-> deserialize(wire.val.out, human_readable, n)])
    /\ UNCHANGED << pc, mainVars, calls, n, input, value, rendered, reparsed, wire, fnVars >>

NextHex ==
    \/ FromStr
    \/ \E h \in BOOLEAN : Deserialize(h)
    \/ Display
    \/ ReParse
    \/ \E h \in BOOLEAN : Serialize(h)
    \/ \E h \in BOOLEAN : DeserializeWire(h)

SpecHex == InitHex /\ [][NextHex]_vars

----------------------------------------------------------------------------
(* The derivation functions called directly on a 32-byte identifier.       *)

InitFn ==
    /\ pc = "fn"
    /\ id \in Ids32
    /\ token_ids = [d \in Decimals |-> { }]
    /\ formatted = None
    /\ calls = << >>
    /\ MainIdle /\ HexIdle

\* get_token_id(id, decimals); the same call may be repeated.
CallGetTokenId(decimals) ==
    /\ pc = "fn"
    /\ token_ids' = [token_ids EXCEPT ![decimals] =
                        @ \cup { [digest |-> get_token_id(id, decimals),
                                  hashed |-> token_hasher(id, decimals)] }]
    /\ UNCHANGED << pc, mainVars, calls, hexVars, id, formatted >>

\* format_token_id(id)
CallFormatTokenId ==
    /\ pc = "fn" /\ formatted = None
    /\ formatted' = Some(format_token_id(id))
    /\ UNCHANGED << pc, mainVars, calls, hexVars, id, token_ids >>

NextFn ==
    \/ \E d \in Decimals : CallGetTokenId(d)
    \/ CallFormatTokenId

SpecFn == InitFn /\ [][NextFn]_vars

----------------------------------------------------------------------------
(* All three uses of the program together.                                 *)

SpecAll == (InitMain \/ InitHex \/ InitFn) /\ [][NextMain \/ NextHex \/ NextFn]_vars

----------------------------------------------------------------------------
(* What the specification says, stated on its own terms.                   *)

IsHexDigit(c) == c \in (48..57) \cup (65..70) \cup (97..102)
IsLowerHexDigit(c) == c \in (48..57) \cup (97..102)
\* The value of a lowercase hex digit.
LowerHexValue(c) == IF c <= 57 THEN c - 48 ELSE c - 87

\* The text after an optional leading "0x".
Body(s) == IF Len(s) >= 2 /\ s[1] = 48 /\ s[2] = 120 THEN SubSeq(s, 3, Len(s)) ELSE s

\* A text that must not parse to N bytes: a character that is no hex digit, an
\* odd number of digits, or a byte count other than N.
Malformed(s, N) ==
    \/ \E i \in 1..Len(Body(s)) : ~IsHexDigit(Body(s)[i])
    \/ Len(Body(s)) % 2 = 1
    \/ Len(Body(s)) # 2 * N

Lowercase(s) == [i \in 1..Len(s) |-> IF s[i] \in 65..90 THEN s[i] + 32 ELSE s[i]]

\* text is "0x" and two lowercase hex digits per byte of bytes, in order.
IsHexTextOf(text, bytes) ==
    /\ Len(text) = 2 + 2 * Len(bytes)
    /\ text[1] = 48 /\ text[2] = 120
    /\ \A i \in 1..Len(bytes) :
        /\ IsLowerHexDigit(text[2 * i + 1]) /\ IsLowerHexDigit(text[2 * i + 2])
        /\ 16 * LowerHexValue(text[2 * i + 1]) + LowerHexValue(text[2 * i + 2]) = bytes[i]

\* The 53 bytes get_warp_route_id is to hash.
WarpRoutePreimage(token, dep) ==
    [i \in 1..53 |->
        IF i <= 12 THEN 0
        ELSE IF i <= 32 THEN token[i - 12]
        ELSE IF i = 33 THEN 0
        ELSE dep[i - 33]]

\* SHA-256 of 53 zero bytes, from a reference implementation.
GoldenZeroWarpRouteId ==
    <<
        53, 63, 214, 40, 183, 246, 231, 212, 38, 229, 214, 162, 125, 27, 195, 172, 34,
        250, 127, 129, 46, 117, 148, 207, 46, 197, 202, 17, 117, 120, 91, 80 >>

ZeroAddress == [i \in 1..20 |-> 0]

\* C1: get_warp_route_id is called on the parsed addresses and hashes exactly
\* one input of 53 bytes: 12 zero bytes, the 20 bytes of token_address, one
\* zero byte, the 20 bytes of deployer; its result is the 32-byte SHA-256
\* digest of those bytes (for two zero addresses, the reference digest).
C1_WarpRouteIdHashesPaddedTokenSeparatorDeployer ==
    /\ Cardinality({ k \in DOMAIN calls : calls[k].fn = "get_warp_route_id" }) <= 1
    /\ \A k \in DOMAIN calls :
        calls[k].fn = "get_warp_route_id" =>
            /\ Len(calls[k].hashed) = 53
            /\ calls[k].hashed = WarpRoutePreimage(token_address.val, deployer.val)
            /\ warp_route_id.some
            /\ Len(warp_route_id.val) = 32
            /\ warp_route_id.val = Sha256(WarpRoutePreimage(token_address.val, deployer.val))
            /\ (token_address.val = ZeroAddress /\ deployer.val = ZeroAddress
                    => warp_route_id.val = GoldenZeroWarpRouteId)

\* get_warp_route_id has run on a token address and a deployer that differ.
C1_Witness ==
    /\ pc = "route"
    /\ token_address.val # deployer.val
    /\ calls[1].fn = "get_warp_route_id"

\* C9: when one of the two address texts is malformed, main never calls
\* get_warp_route_id, get_token_id or format_token_id and prints nothing; the
\* functions are called only on two parsed 20-byte addresses.
C9_FormatErrorStopsBeforeDerivation ==
    /\ Malformed(args.deployer, 20) \/ Malformed(args.token_address, 20) =>
            /\ calls = << >> /\ stdout = << >>
            /\ warp_route_id = None /\ token_id = None
            /\ pc \in { "start", "exit" }
    /\ calls # << >> \/ stdout # << >> =>
            /\ deployer.some /\ Len(deployer.val) = 20
            /\ token_address.some /\ Len(token_address.val) = 20
            /\ ~Malformed(args.deployer, 20) /\ ~Malformed(args.token_address, 20)

\* main has exited on a malformed token address although the deployer is well formed.
C9_Witness ==
    /\ pc = "exit"
    /\ ~Malformed(args.deployer, 20)
    /\ Malformed(args.token_address, 20)

\* C10: a run that ends has printed two lines, the warp route ID first: the
\* hex text of get_warp_route_id on the parsed --token-address (the padded
\* field) and the parsed --deployer (the trailing field), then
\* format_token_id(get_token_id(w, 18)) for that same w; the functions were
\* called in that order.
C10_PipelineOutput ==
    /\ pc = "printed" =>
            /\ Len(stdout) = 1
            /\ stdout[1] = WarpRouteLabel \o to_string(warp_route_id.val)
    /\ pc = "done" =>
            /\ token_address.val = from_str(args.token_address, 20).val
            /\ deployer.val = from_str(args.deployer, 20).val
            /\ warp_route_id.val = Sha256(WarpRoutePreimage(token_address.val, deployer.val))
            /\ IsHexTextOf(to_string(warp_route_id.val), warp_route_id.val)
            /\ token_id.val = get_token_id(warp_route_id.val, 18)
            /\ stdout = << WarpRouteLabel \o to_string(warp_route_id.val),
                           TokenLabel \o format_token_id(token_id.val).val >>
            /\ [k \in 1..Len(calls) |-> calls[k].fn]
                    = << "get_warp_route_id", "get_token_id", "format_token_id" >>
            /\ calls[2].hashed[119] = 18

\* A run has ended on a token address and a deployer that differ.
C10_Witness ==
    /\ pc = "done"
    /\ Len(stdout) = 2
    /\ token_address.val # deployer.val

\* C3: parsing a text as an N-byte value fails, and yields no value, exactly
\* when the text, after an optional leading "0x", has a character that is no
\* hex digit, has an odd number of digits, or decodes to a byte count other
\* than N; a text that parses gives the bytes its digits spell.
C3_ParseFailsExactlyOnMalformedText ==
    value.some /\ value.val.via = "from_str" =>
        /\ ~value.val.res.ok <=> Malformed(input.str, n)
        /\ ~value.val.res.ok => value.val.res.val = << >>
        /\ value.val.res.ok =>
                IsHexTextOf(Prefix0x \o Lowercase(Body(input.str)), value.val.res.val)

\* A prefixed, mixed-case text of hex digits was refused for its byte count alone.
C3_Witness ==
    /\ value.some /\ value.val.via = "from_str" /\ ~value.val.res.ok
    /\ Body(input.str) # input.str
    /\ \A i \in 1..Len(Body(input.str)) : IsHexDigit(Body(input.str)[i])
    /\ \E i \in 1..Len(input.str) : input.str[i] \in 65..70
    /\ \E i \in 1..Len(input.str) : input.str[i] \in 97..102
    /\ Len(Body(input.str)) % 2 = 0
    /\ Len(Body(input.str)) # 2 * n

\* C4 as the specification states it: rendering the value parsed from a text x
\* gives x in lowercase, and parsing the text rendered from a value gives the
\* value back.
C4_RenderOfParsedIsLowercasedText ==
    /\ value.some /\ value.val.via = "from_str" /\ value.val.res.ok /\ rendered.some =>
            rendered.val = Lowercase(input.str)
    /\ reparsed.some => reparsed.val = Ok(value.val.res.val)

\* C4, amended: rendering the value parsed from a text x gives "0x" followed
\* by the lowercased digits of x, which is x in lowercase only when x carries
\* the "0x" prefix; the text rendered from any N-byte value is "0x" and 2N
\* lowercase hex digits, and parsing it gives exactly that value back.
C4_RenderOfParsedIsPrefixedLowercasedDigits ==
    /\ value.some /\ value.val.via = "from_str" /\ value.val.res.ok /\ rendered.some =>
            /\ rendered.val = Prefix0x \o Lowercase(Body(input.str))
            /\ Body(input.str) # input.str => rendered.val = Lowercase(input.str)
            /\ Body(input.str) = input.str => rendered.val # Lowercase(input.str)
    /\ rendered.some =>
            /\ Len(rendered.val) = 2 + 2 * n
            /\ IsHexTextOf(rendered.val, value.val.res.val)
    /\ reparsed.some => reparsed.val = Ok(value.val.res.val)

\* An unprefixed text with an uppercase digit was parsed, rendered and parsed again.
C4_Witness ==
    /\ value.some /\ value.val.via = "from_str" /\ value.val.res.ok
    /\ Body(input.str) = input.str
    /\ \E i \in 1..Len(input.str) : input.str[i] \in 65..70
    /\ rendered.some /\ reparsed.some

\* C8: serialization writes the "0x" text in human-readable mode and otherwise
\* a sequence of exactly N elements, the bytes in order, whatever the value
\* is; what one mode wrote, a deserializer of the same mode reads back as the
\* original value.
C8_SerializationFollowsTheMode ==
    /\ wire.some =>
            /\ wire.val.out.kind = "str" <=> wire.val.human
            /\ wire.val.out.kind = "seq" <=> ~wire.val.human
            /\ wire.val.human => IsHexTextOf(wire.val.out.str, value.val.res.val)
            /\ ~wire.val.human =>
                    /\ wire.val.out.len = n
                    /\ Len(wire.val.out.seq) = n
                    /\ \A i \in 1..n : wire.val.out.seq[i] = value.val.res.val[i]
    /\ back.some /\ back.val.human = wire.val.human =>
            back.val.res = Ok(value.val.res.val)

\* A value was written as a byte sequence and read back in binary mode.
C8_Witness ==
    /\ wire.some /\ ~wire.val.human
    /\ back.some /\ ~back.val.human /\ back.val.res.ok
    /\ \E i \in 1..n : value.val.res.val[i] # 0

\* "Synthetic token for ", as the specification spells it.
SyntheticTokenForText ==
    << 83, 121, 110, 116, 104, 101, 116, 105, 99, 32,
       116, 111, 107, 101, 110, 32, 102, 111, 114, 32 >>

\* C2: get_token_id hashes, in this order, the 32 bytes of warp_route_id, the
\* bytes of "Synthetic token for ", "0x" and the 64 lowercase hex characters
\* of warp_route_id, then the one decimals byte, 119 bytes in all; its result
\* is the 32-byte SHA-256 digest of those bytes.
C2_TokenIdHashesIdNameDecimals ==
    \A d \in Decimals : \A r \in token_ids[d] :
        /\ Len(r.hashed) = 32 + 20 + 66 + 1
        /\ SubSeq(r.hashed, 1, 32) = id
        /\ SubSeq(r.hashed, 33, 52) = SyntheticTokenForText
        /\ IsHexTextOf(SubSeq(r.hashed, 53, 118), id)
        /\ r.hashed[119] = d
        /\ Len(r.digest) = 32
        /\ r.digest = Sha256(r.hashed)

\* get_token_id has run, with decimals 255, on an identifier whose hex text has letters.
C2_Witness ==
    /\ pc = "fn"
    /\ token_ids[255] # { }
    /\ \E i \in 1..32 : id[i] >= 160

\* C6: on one warp_route_id, get_token_id with decimals 0 and with decimals
\* 255 gives two different digests, every repetition of a call gives the
\* digest the first one gave, and the last byte hashed is the decimals.
C6_DecimalsByteIsHashed ==
    /\ \A r0 \in token_ids[0] : \A r255 \in token_ids[255] : r0.digest # r255.digest
    /\ \A d \in Decimals :
        /\ Cardinality(token_ids[d]) <= 1
        /\ \A r \in token_ids[d] :
            /\ r.digest = get_token_id(id, d)
            /\ r.hashed[Len(r.hashed)] = d

\* get_token_id has run with decimals 0 and with decimals 255 on one identifier.
C6_Witness ==
    /\ pc = "fn"
    /\ token_ids[0] # { }
    /\ token_ids[255] # { }

\* The value of a character of the bech32 alphabet, -1 for any other character.
Bech32Value(c) ==
    IF \E i \in 1..32 : Bech32Charset[i] = c
    THEN (CHOOSE i \in 1..32 : Bech32Charset[i] = c) - 1
    ELSE -1

\* The position of the last "1" of a text, 0 when it has none.
SeparatorAt(s) ==
    IF \E i \in 1..Len(s) : s[i] = 49
    THEN CHOOSE i \in 1..Len(s) : s[i] = 49 /\ \A j \in (i + 1)..Len(s) : s[j] # 49
    ELSE 0

\* Bit k (from 0) of a string of 5-bit values.
FeBitAt(fes, k) == (fes[(k \div 5) + 1] \div Pow2(4 - (k % 5))) % 2

\* The whole bytes held by a string of 5-bit values.
FesToBytes(fes) ==
    [j \in 1..((5 * Len(fes)) \div 8) |->
        128 * FeBitAt(fes, 8 * (j - 1)) + 64 * FeBitAt(fes, 8 * (j - 1) + 1)
            + 32 * FeBitAt(fes, 8 * (j - 1) + 2) + 16 * FeBitAt(fes, 8 * (j - 1) + 3)
            + 8 * FeBitAt(fes, 8 * (j - 1) + 4) + 4 * FeBitAt(fes, 8 * (j - 1) + 5)
            + 2 * FeBitAt(fes, 8 * (j - 1) + 6) + FeBitAt(fes, 8 * (j - 1) + 7)]

\* Decoding a bech32m text (BIP-350): the prefix before the last "1", the data
\* characters in the alphabet, a valid checksum over prefix and data, at most
\* four padding bits, all zero.
Bech32mDecode(s) ==
    LET sep == SeparatorAt(s)
        fes == [i \in 1..(Len(s) - sep) |-> Bech32Value(s[sep + i])]
        hrp == SubSeq(s, 1, sep - 1)
        data == SubSeq(fes, 1, Len(fes) - 6)
    IN  IF sep < 2 \/ Len(s) - sep < 6 THEN Err("separator")
        ELSE IF \E i \in 1..Len(fes) : fes[i] = -1 THEN Err("character")
        ELSE IF Polymod(HrpExpand(hrp) \o fes) # 734539939 THEN Err("checksum")
        ELSE IF (5 * Len(data)) % 8 > 4 THEN Err("padding")
        ELSE IF \E k \in (8 * ((5 * Len(data)) \div 8))..(5 * Len(data) - 1) :
                    FeBitAt(data, k) # 0
        THEN Err("padding")
        ELSE Ok([hrp |-> hrp, payload |-> FesToBytes(data)])

\* C5: format_token_id of a 32-byte identifier does not fail; its text starts
\* with "token_1" and decodes, as bech32m, to the prefix "token_" and exactly
\* the 32 bytes of the identifier.
C5_TokenIdTextDecodesToTheIdentifier ==
    formatted.some =>
        /\ formatted.val.ok
        /\ Len(formatted.val.val) >= 7
        /\ SubSeq(formatted.val.val, 1, 7) = << 116, 111, 107, 101, 110, 95, 49 >>
        /\ Bech32mDecode(formatted.val.val).ok
        /\ Bech32mDecode(formatted.val.val).val.hrp = << 116, 111, 107, 101, 110, 95 >>
        /\ Bech32mDecode(formatted.val.val).val.payload = id

\* format_token_id has run on an identifier whose bytes are not all the same.
C5_Witness ==
    /\ pc = "fn"
    /\ formatted.some /\ formatted.val.ok
    /\ \E i \in 1..32 : id[i] # id[1]

\* C7: every Address holds 20 bytes and every HexHash 32 bytes, however it
\* was made: parsed from a text, deserialized in either mode, or returned by
\* get_warp_route_id or get_token_id; a byte sequence whose length is not N is
\* refused.
C7_LengthIsAlwaysN ==
    /\ deployer.some => Len(deployer.val) = 20
    /\ token_address.some => Len(token_address.val) = 20
    /\ warp_route_id.some => Len(warp_route_id.val) = 32
    /\ token_id.some => Len(token_id.val) = 32
    /\ \A d \in Decimals : \A r \in token_ids[d] : Len(r.digest) = 32
    /\ value.some /\ value.val.res.ok => Len(value.val.res.val) = n
    /\ reparsed.some /\ reparsed.val.ok => Len(reparsed.val.val) = n
    /\ back.some /\ back.val.res.ok => Len(back.val.res.val) = n
    /\ value.some /\ value.val.via = "deserialize_binary" /\ input.kind = "seq" =>
            (value.val.res.ok <=> Len(input.seq) = n)

\* A byte sequence one byte longer than an Address was refused in binary mode.
C7_Witness ==
    /\ n = 20
    /\ value.some /\ value.val.via = "deserialize_binary" /\ ~value.val.res.ok
    /\ input.kind = "seq" /\ Len(input.seq) = 21

====
